---- MODULE Spec2Model ----
(***************************************************************************)
(* The callback result store and the SSE broadcaster of the demo app       *)
(* (lib/callback-store), and the route handlers that use them:             *)
(* POST /callback, GET /events, GET /results/{requestId}.                  *)
(*                                                                         *)
(* with the reverse proxies /proxy and /relay, the ZKPSwap page and the    *)
(* relay demo page.                                                        *)
(*                                                                         *)
(* The specifications share the state:                                     *)
(*   Spec          the HTTP surface: only the route handlers run;          *)
(*   SpecStore     storeResult and getResult called directly;              *)
(*   SpecSSE       the listener registry and broadcastSSE called directly; *)
(*   SpecResults   GET /results over a store of any payload;               *)
(*   SpecLib       every function of callback-store called directly;       *)
(*   SpecCallbacks several callbacks racing, streams opening and closing;  *)
(*   SpecCallbackGET  GET /callback beside POST /callback and the lookup;  *)
(*   SpecProxy     the two forwarders, one inbound request at a time;      *)
(*   SpecSwap      the handlers of the ZKPSwap page;                       *)
(*   SpecRelayDemo the auth and proof handlers of the relay demo page.     *)
(***************************************************************************)
EXTENDS Integers, Sequences, FiniteSets, TLC

VARIABLES
    now,          \* Date.now(), in ms
    store,        \* globalThis.__callbackStore: a Map, as its list of entries in insertion order
    clients,      \* globalThis.__sseClients: a Set, as its list of members in insertion order
    streamState,  \* each controller's stream: "new" | "readable" | "closed"
    chunks,       \* each controller's stream: the frames enqueued on it for its client, in order
    last,         \* the call or request of the step that led here, with its result (none: a clock step)
    broadcasts,   \* broadcastSSE calls made so far
    lastWrite,    \* history: per requestId, the last storeResult call and the one before it
    removed,      \* history: the controllers a removeSSEClient call found registered and removed
    proxy,        \* the forwarders: the inbound request handled last, its upstream calls, its response
    page          \* the ZKPSwap page: its React state and what its handlers did

serverVars == <<now, store, clients, streamState, chunks, last, broadcasts, lastWrite, removed>>

vars == <<now, store, clients, streamState, chunks, last, broadcasts, lastWrite, removed,
          proxy, page>>

(***************************************************************************)
(* Bounds of the model.                                                    *)
(***************************************************************************)
MaxClients == 2      \* controllers (streams) that can exist
MaxTicks == 2        \* clock advances in a behaviour
MaxBroadcasts == 1   \* broadcastSSE calls in a behaviour
MaxPosts == 2        \* callbacks in a behaviour of SpecCallbacks
MaxSwaps == 2        \* executeSwap calls, and proof requests, in a behaviour of SpecSwap

RESULT_TTL == 5 * 60 * 1000

Controllers == 1..MaxClients
RequestIds == {"r1", "r2"}

(***************************************************************************)
(* JavaScript values. Every value is a record of one shape: its typeof-    *)
(* like tag t, its literal (scalars), and for objects the requestId        *)
(* property (ridT is typeof obj.requestId) and the status property.        *)
(***************************************************************************)
JSObj(ridT, rid, status) ==
    [t |-> "object", lit |-> "", ridT |-> ridT, rid |-> rid, status |-> status]
JSScalar(t, lit) ==
    [t |-> t, lit |-> lit, ridT |-> "undefined", rid |-> "", status |-> ""]
JSNull == JSScalar("null", "null")
JSUndefined == JSScalar("undefined", "undefined")
JSString(s) == JSScalar("string", s)
SyntaxError == JSScalar("SyntaxError", "")

\* ToBoolean: null, undefined, false, 0 and "" are falsy; every object is truthy.
Truthy(v) ==
    ~ \/ v.t \in {"null", "undefined"}
      \/ (v.t = "boolean" /\ v.lit = "false")
      \/ (v.t = "number" /\ v.lit = "0")
      \/ (v.t = "string" /\ v.lit = "")

\* a || b
JSOr(a, b) == IF Truthy(a) THEN a ELSE b

(***************************************************************************)
(* Request bodies, and JSON.parse / JSON.stringify on them.                *)
(***************************************************************************)
PendingR1 == JSObj("string", "r1", "pending")
CompletedR1 == JSObj("string", "r1", "completed")
CompletedR2 == JSObj("string", "r2", "completed")
NumericId == JSObj("number", "7", "completed")
NoId == JSObj("undefined", "", "completed")
EmptyObject == JSObj("undefined", "", "")

JSONTable ==
    <<
      <<"{\"requestId\":\"r1\",\"status\":\"pending\"}", PendingR1>>,
      <<"{\"requestId\":\"r1\",\"status\":\"completed\"}", CompletedR1>>,
      <<"{\"requestId\":\"r2\",\"status\":\"completed\"}", CompletedR2>>,
      <<"{\"requestId\":7,\"status\":\"completed\"}", NumericId>>,
      <<"{\"status\":\"completed\"}", NoId>>,
      <<"{}", EmptyObject>>,
      <<"null", JSNull>>,
      <<"0", JSScalar("number", "0")>>,
      <<"false", JSScalar("boolean", "false")>>,
      <<"\"\"", JSString("")>>,
      <<"\"r1\"", JSString("r1")>>,
      <<"[]", JSScalar("array", "[]")>>,
      <<"\"not json\"", JSString("not json")>>,
      <<"\"null\"", JSString("null")>>,
      <<"\"0\"", JSString("0")>>,
      <<"\"false\"", JSString("false")>>,
      <<"\"\\\"\\\"\"", JSString("\"\"")>>
    >>

\* Texts JSON.parse accepts beside the canonical ones: insignificant white space.
Spaced ==
    <<
      <<" { \"requestId\" : \"r1\", \"status\" : \"completed\" } ",
        "{\"requestId\":\"r1\",\"status\":\"completed\"}">>
    >>

\* Texts that are not JSON.
Malformed == {"not json", "", "{requestId:r1}"}

Canonical(text) ==
    IF \E i \in 1..Len(Spaced) : Spaced[i][1] = text
    THEN Spaced[CHOOSE i \in 1..Len(Spaced) : Spaced[i][1] = text][2]
    ELSE text

JSONparse(text) ==
    LET c == Canonical(text) IN
    IF \E i \in 1..Len(JSONTable) : JSONTable[i][1] = c
    THEN JSONTable[CHOOSE i \in 1..Len(JSONTable) : JSONTable[i][1] = c][2]
    ELSE SyntaxError

JSONstringify(v) ==
    IF \E i \in 1..Len(JSONTable) : JSONTable[i][2] = v
    THEN JSONTable[CHOOSE i \in 1..Len(JSONTable) : JSONTable[i][2] = v][1]
    ELSE IF v.t = "string" THEN "\"" \o v.lit \o "\""
    ELSE "undefined"

\* The request bodies the callback endpoint is sent.
Bodies ==
    { "{\"requestId\":\"r1\",\"status\":\"pending\"}",
      " { \"requestId\" : \"r1\", \"status\" : \"completed\" } ",
      "{\"requestId\":7,\"status\":\"completed\"}",
      "{\"status\":\"completed\"}",
      "null",
      "0",
      "not json",
      "" }

(***************************************************************************)
(* ECMAScript Map and Set: both keep their entries in insertion order, set *)
(* on a present key replaces the value in place, delete of an absent key   *)
(* changes nothing, and an entry deleted while a for-of loop runs does not *)
(* disturb the visit of the entries after it.                              *)
(***************************************************************************)
MapHas(m, k) == \E i \in 1..Len(m) : m[i].key = k

MapGet(m, k) == m[CHOOSE i \in 1..Len(m) : m[i].key = k]

MapSetAppend(m, k, v) ==
    Append(m, [key |-> k, data |-> v.data, expiresAt |-> v.expiresAt])

MapSet(m, k, v) ==
    IF MapHas(m, k)
    THEN [i \in 1..Len(m) |->
            IF m[i].key = k
            THEN [key |-> k, data |-> v.data, expiresAt |-> v.expiresAt]
            ELSE m[i]]
    ELSE Append(m, [key |-> k, data |-> v.data, expiresAt |-> v.expiresAt])

MapDelete(m, k) == SelectSeq(m, LAMBDA e : e.key # k)

SetHas(s, x) == \E i \in 1..Len(s) : s[i] = x

SetAdd(s, x) == IF SetHas(s, x) THEN s ELSE Append(s, x)

SetDeletePop(s, x) ==
    IF SetHas(s, x) THEN SelectSeq(s, LAMBDA y : y # x)
    ELSE IF s = <<>> THEN s ELSE SubSeq(s, 1, Len(s) - 1)

SetDelete(s, x) == SelectSeq(s, LAMBDA y : y # x)

Members(s) == {s[i] : i \in 1..Len(s)}

(***************************************************************************)
(* callback-store: the result store.                                       *)
(***************************************************************************)
\* val.expiresAt < Date.now(), the test of the sweep
sweepExpiredLeq(val, t) == val.expiresAt <= t

sweepExpired(val, t) == val.expiresAt < t

\* entry.expiresAt < Date.now(), the test of the read
readExpiredLeq(entry, t) == entry.expiresAt <= t

readExpired(entry, t) == entry.expiresAt < t

\* for (const [key, val] of store) if (val.expiresAt < Date.now()) store.delete(key)
RECURSIVE sweep(_, _, _)
sweepNone(m, i, t) == m

sweep(m, i, t) ==
    IF i > Len(m) THEN m
    ELSE IF sweepExpired(m[i], t)
         THEN sweep(MapDelete(m, m[i].key), i, t)
         ELSE sweep(m, i + 1, t)

\* storeResult(requestId, data) called when Date.now() = t: the store after it
storeResultKeepExpiry(m, requestId, data, t) ==
    sweep(MapSet(m, requestId,
                 [data |-> data,
                  expiresAt |-> IF MapHas(m, requestId)
                                THEN MapGet(m, requestId).expiresAt
                                ELSE t + RESULT_TTL]), 1, t)

storeResultIfAbsent(m, requestId, data, t) ==
    IF MapHas(m, requestId) THEN sweep(m, 1, t)
    ELSE sweep(MapSet(m, requestId, [data |-> data, expiresAt |-> t + RESULT_TTL]), 1, t)

storeResultDropped(m, requestId, data, t) == sweep(m, 1, t)

storeResult(m, requestId, data, t) ==
    sweep(MapSet(m, requestId, [data |-> data, expiresAt |-> t + RESULT_TTL]), 1, t)

\* getResult(requestId) called when Date.now() = t: the value returned and the store after it
getResultSweeping(m, requestId, t) ==
    IF ~MapHas(m, requestId) THEN [ret |-> JSNull, store |-> sweep(m, 1, t)]
    ELSE IF readExpired(MapGet(m, requestId), t)
         THEN [ret |-> JSNull, store |-> sweep(m, 1, t)]
         ELSE [ret |-> MapGet(m, requestId).data, store |-> sweep(m, 1, t)]

getResultKeep(m, requestId, t) ==
    IF ~MapHas(m, requestId) THEN [ret |-> JSNull, store |-> m]
    ELSE IF readExpired(MapGet(m, requestId), t)
         THEN [ret |-> JSNull, store |-> m]
         ELSE [ret |-> MapGet(m, requestId).data, store |-> m]

getResult(m, requestId, t) ==
    IF ~MapHas(m, requestId) THEN [ret |-> JSNull, store |-> m]
    ELSE IF readExpired(MapGet(m, requestId), t)
         THEN [ret |-> JSNull, store |-> MapDelete(m, requestId)]
         ELSE [ret |-> MapGet(m, requestId).data, store |-> m]

(***************************************************************************)
(* callback-store: the SSE broadcaster.                                    *)
(***************************************************************************)
addSSEClient(s, controller) == SetAdd(s, controller)

removeSSEClient(s, controller) == SetDelete(s, controller)

\* controller.enqueue(chunk) throws a TypeError unless the stream is readable
EnqueueThrows(ss, c) == ss[c] # "readable"

\* `data: ${JSON.stringify(data)}\n\n` for an event {type, timestamp, data}
Message(event) ==
    [prefix |-> "data: ",
     type |-> event.type,
     timestamp |-> event.timestamp,
     data |-> JSONstringify(event.data),
     terminator |-> "\n\n"]

\* The for-of loop of broadcastSSE over the registry, at member i of the
\* live list: r holds the registry, the streams' chunks, the delivery
\* attempts made so far and whether an exception left the loop.
RECURSIVE broadcastLoop(_, _, _, _)
RECURSIVE broadcastLoopSkip(_, _, _, _)
RECURSIVE broadcastLoopNoCatch(_, _, _, _)
RECURSIVE broadcastLoopPrepend(_, _, _, _)
RECURSIVE broadcastLoopEvict(_, _, _, _)
broadcastLoopSkip(r, i, message, ss) ==
    IF i > Len(r.clients) THEN r
    ELSE LET c == r.clients[i] IN
         IF EnqueueThrows(ss, c)
         THEN broadcastLoopSkip(
                [r EXCEPT !.clients = SetDelete(@, c),
                          !.attempts = Append(@, [client |-> c, message |-> message, ok |-> FALSE])],
                i + 1, message, ss)
         ELSE broadcastLoopSkip(
                [r EXCEPT !.chunks[c] = Append(@, message),
                          !.attempts = Append(@, [client |-> c, message |-> message, ok |-> TRUE])],
                i + 1, message, ss)

broadcastLoopNoCatch(r, i, message, ss) ==
    IF i > Len(r.clients) THEN r
    ELSE LET c == r.clients[i] IN
         IF EnqueueThrows(ss, c)
         THEN [r EXCEPT !.attempts = Append(@, [client |-> c, message |-> message, ok |-> FALSE]),
                        !.threw = TRUE]
         ELSE broadcastLoopNoCatch(
                [r EXCEPT !.chunks[c] = Append(@, message),
                          !.attempts = Append(@, [client |-> c, message |-> message, ok |-> TRUE])],
                i + 1, message, ss)

broadcastLoopPrepend(r, i, message, ss) ==
    IF i > Len(r.clients) THEN r
    ELSE LET c == r.clients[i] IN
         IF EnqueueThrows(ss, c)
         THEN broadcastLoopPrepend(
                [r EXCEPT !.clients = SetDelete(@, c),
                          !.attempts = Append(@, [client |-> c, message |-> message, ok |-> FALSE])],
                i, message, ss)
         ELSE broadcastLoopPrepend(
                [r EXCEPT !.chunks[c] = <<message>> \o @,
                          !.attempts = Append(@, [client |-> c, message |-> message, ok |-> TRUE])],
                i + 1, message, ss)

broadcastLoopEvict(r, i, message, ss) ==
    IF i > Len(r.clients) THEN r
    ELSE LET c == r.clients[i] IN
         IF EnqueueThrows(ss, c)
         THEN broadcastLoopEvict(
                [r EXCEPT !.clients = SetDelete(@, c),
                          !.attempts = Append(@, [client |-> c, message |-> message, ok |-> FALSE])],
                i, message, ss)
         ELSE broadcastLoopEvict(
                [r EXCEPT !.clients = SetDelete(@, c),
                          !.chunks[c] = Append(@, message),
                          !.attempts = Append(@, [client |-> c, message |-> message, ok |-> TRUE])],
                i, message, ss)

broadcastLoop(r, i, message, ss) ==
    IF i > Len(r.clients) THEN r
    ELSE LET c == r.clients[i] IN
         IF EnqueueThrows(ss, c)
         THEN broadcastLoop(
                [r EXCEPT !.clients = SetDelete(@, c),
                          !.attempts = Append(@, [client |-> c, message |-> message, ok |-> FALSE])],
                i, message, ss)
         ELSE broadcastLoop(
                [r EXCEPT !.chunks[c] = Append(@, message),
                          !.attempts = Append(@, [client |-> c, message |-> message, ok |-> TRUE])],
                i + 1, message, ss)

\* broadcastSSE(data): the registry and the chunks after it, its attempts, and whether it threw
broadcastSSE(s, ch, event, ss) ==
    broadcastLoop([clients |-> s, chunks |-> ch, attempts |-> <<>>, threw |-> FALSE],
                  1, Message(event), ss)

(***************************************************************************)
(* The reverse proxies: /proxy/{...path} to the API server (proxyToApi)    *)
(* and /relay/{...path} to the relay server (proxyToRelay).                *)
(***************************************************************************)
API_URL == "http://localhost:4000"
RELAY_URL == "http://localhost:4001"

\* new URL(base).host
URLHost(base) ==
    IF base = API_URL THEN "localhost:4000"
    ELSE IF base = RELAY_URL THEN "localhost:4001"
    ELSE base

\* path.join('/')
RECURSIVE joinPath(_)
joinPath(path) ==
    IF path = <<>> THEN ""
    ELSE IF Len(path) = 1 THEN path[1]
    ELSE path[1] \o "/" \o joinPath(Tail(path))

\* URLSearchParams.set(key, value): the first pair of the key takes the
\* value and the other pairs of the key go; a new key is appended.
paramsSet(params, key, value) ==
    IF \E i \in 1..Len(params) : params[i].key = key
    THEN LET first == CHOOSE i \in 1..Len(params) :
                        /\ params[i].key = key
                        /\ \A j \in 1..(i - 1) : params[j].key # key
             kept == [i \in 1..Len(params) |->
                        IF i = first THEN [key |-> key, value |-> value, keep |-> TRUE]
                        ELSE [key |-> params[i].key, value |-> params[i].value,
                              keep |-> params[i].key # key]]
             left == SelectSeq(kept, LAMBDA e : e.keep)
         IN [i \in 1..Len(left) |-> [key |-> left[i].key, value |-> left[i].value]]
    ELSE Append(params, [key |-> key, value |-> value])

\* searchParams.forEach((value, key) => targetUrl.searchParams.set(key, value))
RECURSIVE copyQuery(_, _)
copyQuery(target, query) ==
    IF query = <<>> THEN target
    ELSE copyQuery(paramsSet(target, query[1].key, query[1].value), Tail(query))

\* new Headers(request.headers); headers.set('host', ...); headers.delete('connection')
forwardHeaders(headers, base) ==
    [h \in (DOMAIN headers \cup {"host"}) \ {"connection"} |->
        IF h = "host" THEN URLHost(base) ELSE headers[h]]

\* request.method !== 'GET' && request.method !== 'HEAD' ? await request.text() : undefined
NoBody == [defined |-> FALSE, text |-> ""]

forwardBodyAlways(request) == [defined |-> TRUE, text |-> request.body]

forwardBody(request) ==
    IF request.method # "GET" /\ request.method # "HEAD"
    THEN [defined |-> TRUE, text |-> request.body]
    ELSE NoBody

\* The statuses a Response may not carry a body with.
NullBodyStatuses == {101, 204, 205, 304}

\* new NextResponse(body, {status}) throws a RangeError for a status outside
\* 200..599 and a TypeError for a body, the empty text included, with a
\* null body status.
ResponseThrowsNever(body, status) == FALSE

ResponseThrows(body, status) ==
    \/ status < 200
    \/ status > 599
    \/ status \in NullBodyStatuses

ResponseError(status) ==
    IF status < 200 \/ status > 599
    THEN "RangeError: init[\"status\"] must be in the range of 200 to 599, inclusive."
    ELSE "TypeError: Response constructor: Invalid response status code"

\* fetch rejecting: the upstream could not be reached
FetchError == "TypeError: fetch failed"

\* JSON.stringify({ error, details })
ErrorJSON(error, details) ==
    "{\"error\":\"" \o error \o "\",\"details\":\"" \o details \o "\"}"

NoResponse ==
    [status |-> 0, body |-> "", contentType |-> "", cors |-> "",
     allowMethods |-> "", allowHeaders |-> ""]

\* One fetch(targetUrl, { method, headers, body })
upstreamCall(base, prefix, request) ==
    [base |-> base,
     path |-> prefix \o joinPath(request.path),
     query |-> copyQuery(<<>>, request.query),
     method |-> request.method,
     headers |-> forwardHeaders(request.headers, base),
     body |-> forwardBody(request)]

\* catch (err) { return NextResponse.json({ error, details: String(err) }, { status: 502 }) }
proxyCatchRethrow(label, err) ==
    [response |-> NoResponse, threw |-> TRUE]

proxyCatch(label, err) ==
    [response |-> [NoResponse EXCEPT !.status = 502, !.body = ErrorJSON(label, err),
                                     !.contentType = "application/json"],
     threw |-> FALSE]

\* The try block after the fetch: the response relayed, or what the catch makes
\* of the exception of the fetch or of the Response constructor.
relay(label, outcome) ==
    IF outcome.kind = "fail" THEN proxyCatch(label, FetchError)
    ELSE IF ResponseThrows(outcome.body, outcome.status)
         THEN proxyCatch(label, ResponseError(outcome.status))
         ELSE [response |-> [NoResponse EXCEPT
                                !.status = outcome.status, !.body = outcome.body,
                                !.contentType = IF outcome.contentType # ""
                                                THEN outcome.contentType
                                                ELSE "application/json",
                                !.cors = "*"],
               threw |-> FALSE]

\* proxyToApi(request, params) when the upstream answers with outcome
proxyToApi(request, outcome) ==
    LET r == relay("Proxy error", outcome)
    IN [route |-> "proxy", request |-> request, outcome |-> outcome,
        calls |-> <<upstreamCall(API_URL, "/api/", request)>>,
        response |-> r.response, threw |-> r.threw]

\* proxyToRelay(request, params) when the upstream answers with outcome
proxyToRelay(request, outcome) ==
    LET r == relay("Relay proxy error", outcome)
    IN [route |-> "relay", request |-> request, outcome |-> outcome,
        calls |-> <<upstreamCall(RELAY_URL, "/api/v1/", request)>>,
        response |-> r.response, threw |-> r.threw]

\* OPTIONS(): new NextResponse(null, { status: 204, headers }) of either route;
\* the handler takes no request and calls no upstream
PreflightResponse ==
    [NoResponse EXCEPT !.status = 204, !.cors = "*",
                       !.allowMethods = "GET, POST, PUT, DELETE, OPTIONS",
                       !.allowHeaders = "Content-Type, x-api-key, Authorization"]

NoOutcome == [kind |-> "none", status |-> 0, body |-> "", contentType |-> ""]

\* OPTIONS of /proxy, as if it forwarded to an upstream answering 200
OPTIONSproxyForwarded(request) ==
    proxyToApi(request, [kind |-> "response", status |-> 200, body |-> "",
                         contentType |-> ""])

OPTIONSproxy(request) ==
    [route |-> "proxy", request |-> request, outcome |-> NoOutcome, calls |-> <<>>,
     response |-> PreflightResponse, threw |-> FALSE]

OPTIONSrelay(request) ==
    [route |-> "relay", request |-> request, outcome |-> NoOutcome, calls |-> <<>>,
     response |-> PreflightResponse, threw |-> FALSE]

NoRequest ==
    [method |-> "", path |-> <<>>, query |-> <<>>, headers |-> [host |-> ""], body |-> ""]

NoProxyCall ==
    [route |-> "", request |-> NoRequest, outcome |-> NoOutcome, calls |-> <<>>,
     response |-> NoResponse, threw |-> FALSE]

(***************************************************************************)
(* The ZKPSwap page. Amounts and balances are in hundredths of a token,    *)
(* prices in cents, USD values in their product (1/10000 of a dollar).     *)
(***************************************************************************)
KYC_THRESHOLD == 5

\* n tokens, as an amount
Tokens(n) == n * 100

\* n dollars, as a USD value
USD(n) == n * 100 * 100

\* INITIAL_TOKENS: price and balance
Symbols == {"ETH", "USDC"}

Price == [ETH |-> 216482, USDC |-> 100]

INITIAL_TOKENS == [ETH |-> 1250, USDC |-> 1250000]

\* const usdValue = parsedFromAmount * fromTokenData.price
usdValue(amount, token) == amount * Price[token]

\* const out = amount * (from.price / to.price), cut to the hundredth
outputAmount(amount, from, to) == (amount * Price[from]) \div Price[to]

\* amount >= KYC_THRESHOLD && !kycVerified
needsKycUSD(amount, token, kycVerified) ==
    usdValue(amount, token) > USD(10000) /\ ~kycVerified

needsKyc(amount, token, kycVerified) ==
    amount >= Tokens(KYC_THRESHOLD) /\ ~kycVerified

NoSwap == [amount |-> 0, from |-> "", to |-> "", withKyc |-> FALSE]

\* fromAmount: parseFloat of the input, 0 when it is no positive number;
\* swapLoading: the state that disables the swap button;
\* proofs: the proof requests waited for, each with the swap its closure
\* holds; pending: the executeSwap calls in their delay, each with the swap
\* its closure holds; swaps, requests: executeSwap and openKycModal calls
\* made; op, did, swap: the handler that ran last (none: one that only
\* sets an input), what it went on to do, and the swap it was about.
InitialPage ==
    [walletConnected |-> FALSE, kycVerified |-> FALSE,
     fromToken |-> "ETH", toToken |-> "USDC", fromAmount |-> 0,
     balance |-> INITIAL_TOKENS, kycModalOpen |-> FALSE, kycStatus |-> "waiting",
     swapLoading |-> FALSE,
     proofs |-> <<>>, pending |-> <<>>, swaps |-> 0, requests |-> 0,
     op |-> "none", did |-> "none", swap |-> NoSwap]

(***************************************************************************)
(* The state after construction, and the record of the last call.          *)
(***************************************************************************)
NoEvent == [type |-> "", timestamp |-> -1, data |-> JSUndefined]

\* op: the call; id, client, body, data, event: its arguments; ret: the value
\* returned; status, success, found: the response; attempts, threw: the
\* enqueue calls of a broadcast and whether an exception left the call;
\* query: the query pairs of a GET callback;
\* swept: the entries a storeResult deleted; replaced: the expiresAt of the
\* entry a storeResult replaced (-1: none); member: whether removeSSEClient
\* found its argument registered.
NoCall ==
    [op |-> "none", id |-> "", client |-> 0, body |-> "", data |-> JSUndefined,
     event |-> NoEvent, ret |-> JSUndefined, status |-> 0, success |-> FALSE,
     found |-> FALSE, attempts |-> <<>>, threw |-> FALSE, swept |-> 0,
     replaced |-> -1, member |-> FALSE, query |-> <<>>]

\* written: storeResult ran for the id; t, data: the time and the payload of
\* its last run; over, prev: whether that run found an entry of the id that
\* had not expired, and the payload it replaced.
NoWrite ==
    [written |-> FALSE, t |-> 0, data |-> JSUndefined, over |-> FALSE,
     prev |-> JSUndefined]

\* The history of writes after storeResult(id, data) at time t on the store m.
Written(lw, m, id, data, t) ==
    IF id \notin DOMAIN lw THEN lw
    ELSE LET old == {m[i] : i \in {j \in 1..Len(m) : m[j].key = id /\ m[j].expiresAt >= t}}
         IN [lw EXCEPT ![id] =
                [written |-> TRUE, t |-> t, data |-> data, over |-> old # {},
                 prev |-> IF old = {} THEN JSUndefined ELSE (CHOOSE e \in old : TRUE).data]]

Init ==
    /\ now = 0
    /\ store = <<>>
    /\ clients = <<>>
    /\ streamState = [c \in Controllers |-> "new"]
    /\ chunks = [c \in Controllers |-> <<>>]
    /\ last = NoCall
    /\ broadcasts = 0
    /\ lastWrite = [id \in RequestIds |-> NoWrite]
    /\ removed = {}
    /\ proxy = NoProxyCall
    /\ page = InitialPage

\* The clock moves by 1 ms or by a whole TTL; ClockSteps counts the moves made.
ClockSteps(t) == (t \div RESULT_TTL) + (t % RESULT_TTL)

AdvanceSteps == {1, RESULT_TTL}

Advance(d) ==
    /\ ClockSteps(now) < MaxTicks
    /\ now' = now + d
    /\ last' = NoCall
    /\ UNCHANGED <<store, clients, streamState, chunks, broadcasts, lastWrite, removed, proxy, page>>

CanBroadcast == broadcasts < MaxBroadcasts

(***************************************************************************)
(* GET /events: new ReadableStream({start, cancel}).                       *)
(***************************************************************************)
\* 'data: {"type":"connected"}\n\n'
ConnectedFrame ==
    [prefix |-> "data: ", type |-> "connected", timestamp |-> -1,
     data |-> "", terminator |-> "\n\n"]

\* start(controller) { addSSEClient(controller); controller.enqueue(connected frame) }:
\* the registry and the chunks after it
startNoAck(s, ch, c) ==
    [clients |-> addSSEClient(s, c), chunks |-> ch]

startReplay(s, ch, c) ==
    [clients |-> addSSEClient(s, c),
     chunks |-> [ch EXCEPT ![c] =
                    <<ConnectedFrame>> \o
                    (IF \E d \in DOMAIN ch : Len(ch[d]) > 1
                     THEN Tail(ch[CHOOSE d \in DOMAIN ch : Len(ch[d]) > 1])
                     ELSE <<>>)]]

start(s, ch, c) ==
    [clients |-> addSSEClient(s, c),
     chunks |-> [ch EXCEPT ![c] = Append(@, ConnectedFrame)]]

\* GET /events: the stream is made, and its start callback runs at once.
\* Controllers are handed out in order.
EventsGET(c) ==
    /\ streamState[c] = "new"
    /\ \A d \in Controllers : d < c => streamState[d] # "new"
    /\ streamState' = [streamState EXCEPT ![c] = "readable"]
    /\ clients' = start(clients, chunks, c).clients
    /\ chunks' = start(clients, chunks, c).chunks
    /\ last' = [NoCall EXCEPT !.op = "GET /events", !.client = c, !.status = 200]
    /\ UNCHANGED <<now, store, broadcasts, lastWrite, removed, proxy, page>>

\* The value the stream passes to the underlying source's cancel callback:
\* the reason of the cancellation, which is no controller.
CancelReason == 0

cancelArgController(c) == c

\* cancel(controller): the callback's parameter is bound to the reason
cancelArg(c) == CancelReason

\* The client disconnects: the stream is cancelled (it is closed from then
\* on, and its frames go with the client) and calls
\* cancel(x) { removeSSEClient(x) } with the cancel argument.
EventsCancel(c) ==
    /\ streamState[c] = "readable"
    /\ streamState' = [streamState EXCEPT ![c] = "closed"]
    /\ clients' = removeSSEClient(clients, cancelArg(c))
    /\ chunks' = [chunks EXCEPT ![c] = <<>>]
    /\ last' = [NoCall EXCEPT !.op = "cancel", !.client = c,
                              !.member = SetHas(clients, cancelArg(c))]
    /\ UNCHANGED <<now, store, broadcasts, lastWrite, removed, proxy, page>>

(***************************************************************************)
(* POST /callback.                                                         *)
(***************************************************************************)
\* try { parsedBody = JSON.parse(body) } catch { }: null when the text is no JSON
parseBodyNoCatch(body) == JSONparse(body)

parseBody(body) ==
    IF JSONparse(body) = SyntaxError THEN JSNull ELSE JSONparse(body)

\* parsedBody && typeof parsedBody.requestId === 'string'
hasRequestIdAny(parsedBody) == Truthy(parsedBody) /\ parsedBody.ridT # "undefined"

hasRequestId(parsedBody) == Truthy(parsedBody) /\ parsedBody.ridT = "string"

\* { type: 'proof-callback', timestamp, data: parsedBody || body }
callbackEventRaw(parsedBody, body, t) ==
    [type |-> "proof-callback", timestamp |-> t, data |-> JSString(body)]

callbackEvent(parsedBody, body, t) ==
    [type |-> "proof-callback", timestamp |-> t, data |-> JSOr(parsedBody, JSString(body))]

\* return NextResponse.json({ success: true }); an exception that leaves the
\* handler makes the response a 500.
postStatus(parsedBody, threw) ==
    IF parsedBody = SyntaxError \/ threw THEN 500 ELSE 200

CallbackPOST(body) ==
    /\ LET parsedBody == parseBody(body)
           stored == hasRequestId(parsedBody)
           event == callbackEvent(parsedBody, body, now)
           bc == broadcastSSE(clients, chunks, event, streamState)
           status == postStatus(parsedBody, bc.threw)
       IN /\ store' = IF stored
                      THEN storeResult(store, parsedBody.rid, parsedBody, now)
                      ELSE store
          /\ lastWrite' = IF stored
                          THEN Written(lastWrite, store, parsedBody.rid, parsedBody, now)
                          ELSE lastWrite
          /\ clients' = bc.clients
          /\ chunks' = bc.chunks
          /\ last' = [NoCall EXCEPT !.op = "POST /callback", !.body = body,
                                    !.data = parsedBody, !.event = event,
                                    !.id = IF stored THEN parsedBody.rid ELSE "",
                                    !.attempts = bc.attempts, !.threw = bc.threw,
                                    !.status = status, !.success = (status = 200)]
    /\ broadcasts' = broadcasts + 1
    /\ UNCHANGED <<now, streamState, removed, proxy, page>>

(***************************************************************************)
(* GET /callback: the query parameters are the payload.                    *)
(***************************************************************************)
\* The last (or the first) value of a key among the query pairs, "" when absent.
RECURSIVE lastValue(_, _)
RECURSIVE firstValue(_, _)
firstValue(query, key) ==
    IF query = <<>> THEN ""
    ELSE IF query[1].key = key THEN query[1].value
    ELSE firstValue(Tail(query), key)

lastValue(query, key) ==
    IF query = <<>> THEN ""
    ELSE IF query[Len(query)].key = key THEN query[Len(query)].value
    ELSE lastValue(SubSeq(query, 1, Len(query) - 1), key)

hasKey(query, key) == \E i \in 1..Len(query) : query[i].key = key

\* Object.fromEntries(searchParams.entries()): every key once, with the
\* value of its last pair; the values are strings.
fromEntriesFirst(query) ==
    JSObj(IF hasKey(query, "requestId") THEN "string" ELSE "undefined",
          firstValue(query, "requestId"), firstValue(query, "status"))

fromEntries(query) ==
    JSObj(IF hasKey(query, "requestId") THEN "string" ELSE "undefined",
          lastValue(query, "requestId"), lastValue(query, "status"))

\* { type: 'proof-callback', timestamp, data: query }
queryEvent(query, t) ==
    [type |-> "proof-callback", timestamp |-> t, data |-> fromEntries(query)]

\* GET(request): broadcastSSE(event); return { success: true, received: query }
CallbackGET(query) ==
    /\ LET event == queryEvent(query, now)
           bc == broadcastSSE(clients, chunks, event, streamState)
       IN /\ clients' = bc.clients
          /\ chunks' = bc.chunks
          /\ last' = [NoCall EXCEPT !.op = "GET /callback", !.query = query,
                                    !.data = fromEntries(query), !.event = event,
                                    !.attempts = bc.attempts, !.threw = bc.threw,
                                    !.status = IF bc.threw THEN 500 ELSE 200,
                                    !.success = ~bc.threw]
    /\ broadcasts' = broadcasts + 1
    /\ UNCHANGED <<now, store, streamState, lastWrite, removed, proxy, page>>

(***************************************************************************)
(* GET /results/{requestId}.                                               *)
(***************************************************************************)
\* { found: !!result, data: result || null }
ResultsGET(requestId) ==
    /\ LET r == getResult(store, requestId, now)
       IN /\ store' = r.store
          /\ last' = [NoCall EXCEPT !.op = "GET /results", !.id = requestId,
                                    !.ret = r.ret, !.found = Truthy(r.ret),
                                    !.data = JSOr(r.ret, JSNull), !.status = 200]
    /\ UNCHANGED <<now, clients, streamState, chunks, broadcasts, lastWrite, removed, proxy, page>>

Next ==
    \/ \E d \in AdvanceSteps : Advance(d)
    \/ \E c \in Controllers : EventsGET(c)
    \/ \E c \in Controllers : EventsCancel(c)
    \/ \E body \in Bodies : CanBroadcast /\ CallbackPOST(body)
    \/ \E requestId \in RequestIds : ResultsGET(requestId)

Spec == Init /\ [][Next]_vars

(***************************************************************************)
(* SpecStore: storeResult and getResult called directly, with any          *)
(* requestId and any payload, as the clock runs.                           *)
(***************************************************************************)
Payloads == {PendingR1, CompletedR1, JSNull}

StoreIds == RequestIds

LibStoreResult(requestId, data) ==
    /\ store' = storeResult(store, requestId, data, now)
    /\ lastWrite' = Written(lastWrite, store, requestId, data, now)
    /\ last' = [NoCall EXCEPT !.op = "storeResult", !.id = requestId, !.data = data,
                              !.replaced = IF MapHas(store, requestId)
                                           THEN MapGet(store, requestId).expiresAt
                                           ELSE -1,
                              !.swept = Len(store) + (IF MapHas(store, requestId) THEN 0 ELSE 1)
                                            - Len(store')]
    /\ UNCHANGED <<now, clients, streamState, chunks, broadcasts, removed, proxy, page>>

LibGetResult(requestId) ==
    /\ LET r == getResult(store, requestId, now)
       IN /\ store' = r.store
          /\ last' = [NoCall EXCEPT !.op = "getResult", !.id = requestId, !.ret = r.ret]
    /\ UNCHANGED <<now, clients, streamState, chunks, broadcasts, lastWrite, removed, proxy, page>>

NextStore ==
    \/ \E d \in AdvanceSteps : Advance(d)
    \/ \E requestId \in StoreIds, data \in Payloads : LibStoreResult(requestId, data)
    \/ \E requestId \in RequestIds : LibGetResult(requestId)

SpecStore == Init /\ [][NextStore]_vars

(***************************************************************************)
(* SpecSSE: addSSEClient, removeSSEClient and broadcastSSE called          *)
(* directly on controllers of open streams, any of which may close.        *)
(***************************************************************************)
InitSSE ==
    /\ now = 0
    /\ store = <<>>
    /\ clients = <<>>
    /\ streamState = [c \in Controllers |-> "readable"]
    /\ chunks = [c \in Controllers |-> <<>>]
    /\ last = NoCall
    /\ broadcasts = 0
    /\ lastWrite = [id \in RequestIds |-> NoWrite]
    /\ removed = {}
    /\ proxy = NoProxyCall
    /\ page = InitialPage

Events ==
    { [type |-> "proof-callback", timestamp |-> 0, data |-> CompletedR1],
      [type |-> "proof-callback", timestamp |-> 1, data |-> JSString("not json")] }

LibAddSSEClient(c) ==
    /\ clients' = addSSEClient(clients, c)
    /\ last' = [NoCall EXCEPT !.op = "addSSEClient", !.client = c]
    /\ UNCHANGED <<now, store, streamState, chunks, broadcasts, lastWrite, removed, proxy, page>>

LibRemoveSSEClient(c) ==
    /\ clients' = removeSSEClient(clients, c)
    /\ removed' = IF SetHas(clients, c) THEN removed \cup {c} ELSE removed
    /\ last' = [NoCall EXCEPT !.op = "removeSSEClient", !.client = c,
                              !.member = SetHas(clients, c)]
    /\ UNCHANGED <<now, store, streamState, chunks, broadcasts, lastWrite, proxy, page>>

LibBroadcastSSE(event) ==
    /\ CanBroadcast
    /\ LET bc == broadcastSSE(clients, chunks, event, streamState)
       IN /\ clients' = bc.clients
          /\ chunks' = bc.chunks
          /\ last' = [NoCall EXCEPT !.op = "broadcastSSE", !.event = event,
                                    !.attempts = bc.attempts, !.threw = bc.threw]
    /\ broadcasts' = broadcasts + 1
    /\ UNCHANGED <<now, store, streamState, lastWrite, removed, proxy, page>>

\* The connection of a stream closes; nothing tells the registry.
LibCloseStream(c) ==
    /\ streamState[c] = "readable"
    /\ streamState' = [streamState EXCEPT ![c] = "closed"]
    /\ last' = [NoCall EXCEPT !.op = "close", !.client = c]
    /\ UNCHANGED <<now, store, clients, chunks, broadcasts, lastWrite, removed, proxy, page>>

NextSSE ==
    \/ \E c \in Controllers : LibAddSSEClient(c)
    \/ \E c \in Controllers : LibRemoveSSEClient(c)
    \/ \E event \in Events : LibBroadcastSSE(event)
    \/ \E c \in Controllers : LibCloseStream(c)

SpecSSE == InitSSE /\ [][NextSSE]_vars

(***************************************************************************)
(* SpecLib: every function of callback-store called directly, on one store *)
(* and one registry: writes and reads of r1, the passing of the TTL, and   *)
(* listeners added, removed and broadcast to while their streams close.    *)
(***************************************************************************)
LibPayloads == {CompletedR1}

\* Two listeners are enough to add, remove and evict one beside another.
LibControllers == {c \in Controllers : c <= 2}

LibEvents == {[type |-> "proof-callback", timestamp |-> 0, data |-> CompletedR1]}

NextLib ==
    \/ Advance(RESULT_TTL)
    \/ \E data \in LibPayloads : LibStoreResult("r1", data)
    \/ LibGetResult("r1")
    \/ \E c \in LibControllers : LibAddSSEClient(c)
    \/ \E c \in LibControllers : LibRemoveSSEClient(c)
    \/ \E event \in LibEvents : LibBroadcastSSE(event)
    \/ \E c \in LibControllers : LibCloseStream(c)

SpecLib == InitSSE /\ [][NextLib]_vars

(***************************************************************************)
(* SpecResults: GET /results/{requestId} over a store that storeResult     *)
(* filled with any value it accepts (its data parameter is unknown).       *)
(***************************************************************************)
AnyPayloads == {CompletedR1, JSScalar("number", "0"), JSNull}

NextResults ==
    \/ \E d \in AdvanceSteps : Advance(d)
    \/ \E requestId \in StoreIds, data \in AnyPayloads : LibStoreResult(requestId, data)
    \/ \E requestId \in RequestIds : ResultsGET(requestId)

SpecResults == Init /\ [][NextResults]_vars

(***************************************************************************)
(* SpecCallbacks: several callbacks, two of them with the same requestId,  *)
(* arrive in any order while streams open and close and results are read.  *)
(* A POST handler suspends only at await request.text(), before it touches *)
(* the store or the registry, so the handlers interleave as whole steps.   *)
(***************************************************************************)
RaceBodies ==
    { "{\"requestId\":\"r1\",\"status\":\"pending\"}",
      " { \"requestId\" : \"r1\", \"status\" : \"completed\" } ",
      "not json" }

CanPost == broadcasts < MaxPosts

NextCallbacks ==
    \/ Advance(RESULT_TTL)
    \/ \E c \in Controllers : EventsGET(c)
    \/ \E c \in Controllers : EventsCancel(c)
    \/ \E body \in RaceBodies : CanPost /\ CallbackPOST(body)
    \/ ResultsGET("r1")

SpecCallbacks == Init /\ [][NextCallbacks]_vars

(***************************************************************************)
(* SpecCallbackGET: GET callbacks and POST callbacks arrive while streams  *)
(* open and close.                                                         *)
(***************************************************************************)
CallbackQueries ==
    { <<>>,
      <<[key |-> "requestId", value |-> "r1"], [key |-> "status", value |-> "completed"]>>,
      <<[key |-> "status", value |-> "pending"], [key |-> "status", value |-> "completed"]>> }

NextCallbackGET ==
    \/ \E c \in Controllers : EventsGET(c)
    \/ \E c \in Controllers : EventsCancel(c)
    \/ CanPost /\ CallbackPOST("{\"requestId\":\"r1\",\"status\":\"pending\"}")
    \/ \E query \in CallbackQueries : CanPost /\ CallbackGET(query)
    \/ ResultsGET("r1")

SpecCallbackGET == Init /\ [][NextCallbackGET]_vars

(***************************************************************************)
(* SpecProxy: an inbound request to /proxy/{...path} or /relay/{...path},  *)
(* with what the upstream does with its fetch.                             *)
(***************************************************************************)
\* The methods the two routes export a forwarding handler for.
ProxyMethods == {"GET", "POST", "PUT", "DELETE"}

ProxyPaths == {<<"proof">>, <<"auth", "login">>}

ProxyQueries ==
    { <<>>,
      <<[key |-> "a", value |-> "1"], [key |-> "b", value |-> "2"]>>,
      <<[key |-> "a", value |-> "1"], [key |-> "a", value |-> "2"]>> }

ProxyBodies == {"", "{\"circuit\":\"coinbase_attestation\"}"}

InboundHeaders ==
    [host |-> "demo.local:3000", connection |-> "keep-alive", authorization |-> "Bearer t"]

Requests ==
    [method : ProxyMethods, path : ProxyPaths, query : ProxyQueries,
     headers : {InboundHeaders}, body : ProxyBodies]

\* What the upstream does: the fetch rejects, or it answers.
UpstreamStatuses == {200, 204, 404, 500}

Outcomes ==
    {[kind |-> "fail", status |-> 0, body |-> "", contentType |-> ""]}
    \cup
    {o \in [kind : {"response"}, status : UpstreamStatuses,
            body : {"", "{\"ok\":true}"}, contentType : {"", "text/plain"}] :
        o.status \in NullBodyStatuses => o.body = ""}

\* The forwarders keep nothing from one request to the next: a behaviour
\* handles one inbound request.
ProxyRoute(request, outcome) ==
    /\ proxy = NoProxyCall
    /\ proxy' = proxyToApi(request, outcome)
    /\ UNCHANGED <<serverVars, page>>

RelayRoute(request, outcome) ==
    /\ proxy = NoProxyCall
    /\ proxy' = proxyToRelay(request, outcome)
    /\ UNCHANGED <<serverVars, page>>

\* The preflight requests: OPTIONS, with no body.
OptionsRequests ==
    [method : {"OPTIONS"}, path : ProxyPaths, query : ProxyQueries,
     headers : {InboundHeaders}, body : {""}]

ProxyOptions(request) ==
    /\ proxy = NoProxyCall
    /\ proxy' = OPTIONSproxy(request)
    /\ UNCHANGED <<serverVars, page>>

RelayOptions(request) ==
    /\ proxy = NoProxyCall
    /\ proxy' = OPTIONSrelay(request)
    /\ UNCHANGED <<serverVars, page>>

NextProxy ==
    \/ \E request \in Requests, outcome \in Outcomes : ProxyRoute(request, outcome)
    \/ \E request \in Requests, outcome \in Outcomes : RelayRoute(request, outcome)
    \/ \E request \in OptionsRequests : ProxyOptions(request)
    \/ \E request \in OptionsRequests : RelayOptions(request)

SpecProxy == Init /\ [][NextProxy]_vars

(***************************************************************************)
(* SpecSwap: the handlers of the ZKPSwap page, run by the user's clicks,   *)
(* by the timers of executeSwap and by the results of the proof requests.  *)
(***************************************************************************)
Amounts == {0, 470, 500, 1000}

PageStep(p) ==
    /\ page' = p
    /\ UNCHANGED <<serverVars, proxy>>

\* The swap the closures of this render hold.
CurrentSwap(withKyc) ==
    [amount |-> page.fromAmount, from |-> page.fromToken, to |-> page.toToken,
     withKyc |-> withKyc]

\* The overlay of the open KYC modal covers the page: the controls under it
\* take no click until the modal is closed.
Clickable == ~page.kycModalOpen

\* The close button, the overlay and the Escape key: setKycModalOpen(false)
closeKycModal ==
    /\ page.kycModalOpen
    /\ PageStep([page EXCEPT !.kycModalOpen = FALSE, !.op = "none",
                             !.did = "none", !.swap = NoSwap])

\* The page is loaded again: the wallet and kycVerified come back from
\* sessionStorage, everything else starts over, and the timers and the
\* waits of the page that was left are gone.
reload ==
    /\ page' = [InitialPage EXCEPT !.walletConnected = page.walletConnected,
                                   !.kycVerified = page.kycVerified,
                                   !.swaps = page.swaps, !.requests = page.requests]
    /\ UNCHANGED <<serverVars, proxy>>

handleConnectWallet ==
    /\ Clickable
    /\ PageStep([page EXCEPT !.walletConnected = ~@, !.op = "none",
                          !.did = "none", !.swap = NoSwap])

handleAmountInput(amount) ==
    /\ Clickable
    /\ PageStep([page EXCEPT !.fromAmount = amount, !.op = "none",
                          !.did = "none", !.swap = NoSwap])

\* handleSwapDirection(): the two tokens change sides; the amount is
\* multiplied by price[oldFrom] / price[oldFrom], which leaves it as it is.
handleSwapDirection ==
    /\ Clickable
    /\ PageStep([page EXCEPT !.fromToken = page.toToken, !.toToken = page.fromToken,
                          !.fromAmount = (@ * Price[page.fromToken]) \div Price[page.fromToken],
                          !.op = "none", !.did = "none", !.swap = NoSwap])

resetKycVerification ==
    /\ Clickable
    /\ page.kycVerified
    /\ PageStep([page EXCEPT !.kycVerified = FALSE, !.op = "none",
                             !.did = "none", !.swap = NoSwap])

\* executeSwap(withKyc) up to its await of the 1500 ms timer
executeSwapStart(p, swap) ==
    [p EXCEPT !.swapLoading = TRUE, !.pending = Append(@, swap), !.swaps = @ + 1]

\* openKycModal(): the proof request is made and waited for
openKycModal(p, swap) ==
    [p EXCEPT !.kycModalOpen = TRUE, !.kycStatus = "waiting",
              !.proofs = Append(@, swap), !.requests = @ + 1]

\* The swap button is disabled while swapLoading.
handleSwap ==
    /\ Clickable
    /\ ~page.swapLoading
    /\ page.swaps < MaxSwaps
    /\ page.requests < MaxSwaps
    /\ LET amount == page.fromAmount
           p == [page EXCEPT !.op = "handleSwap", !.did = "none",
                             !.swap = CurrentSwap(FALSE)]
       IN IF ~page.walletConnected
          THEN PageStep([p EXCEPT !.walletConnected = TRUE, !.did = "handleConnectWallet"])
          ELSE IF amount <= 0 \/ amount > page.balance[page.fromToken]
          THEN PageStep(p)
          ELSE IF needsKyc(amount, page.fromToken, page.kycVerified)
          THEN PageStep(openKycModal([p EXCEPT !.did = "openKycModal"], CurrentSwap(TRUE)))
          ELSE PageStep(executeSwapStart([p EXCEPT !.did = "executeSwap"], CurrentSwap(FALSE)))

\* executeSwap after its timer: the balances move by the amount of its closure
executeSwapFinish(i) ==
    /\ i \in 1..Len(page.pending)
    /\ LET swap == page.pending[i]
           out == outputAmount(swap.amount, swap.from, swap.to)
       IN PageStep([page EXCEPT
             !.balance = [@ EXCEPT ![swap.from] = @ - swap.amount,
                                   ![swap.to] = IF swap.to = swap.from
                                                THEN @ - swap.amount + out
                                                ELSE @ + out],
             !.pending = SubSeq(@, 1, i - 1) \o SubSeq(@, i + 1, Len(@)),
             !.fromAmount = 0, !.swapLoading = FALSE,
             !.op = "executeSwap", !.did = "swapped", !.swap = swap])

\* handleProofResult(data) for the proof request i, with data.status
handleProofResult(i, status) ==
    /\ i \in 1..Len(page.proofs)
    /\ page.swaps < MaxSwaps
    /\ LET swap == page.proofs[i]
           p == [page EXCEPT
                   !.proofs = SubSeq(@, 1, i - 1) \o SubSeq(@, i + 1, Len(@)),
                   !.op = "handleProofResult", !.did = "none", !.swap = swap]
       IN IF status = "completed"
          THEN PageStep(executeSwapStart(
                   [p EXCEPT !.kycStatus = "verified", !.kycVerified = TRUE,
                             !.kycModalOpen = FALSE, !.did = "executeSwap"], swap))
          ELSE PageStep([p EXCEPT !.kycStatus = "error"])

NextSwap ==
    \/ handleConnectWallet
    \/ \E amount \in Amounts : handleAmountInput(amount)
    \/ handleSwapDirection
    \/ resetKycVerification
    \/ closeKycModal
    \/ reload
    \/ handleSwap
    \/ \E i \in 1..MaxSwaps : executeSwapFinish(i)
    \/ \E i \in 1..MaxSwaps, status \in {"completed", "failed"} : handleProofResult(i, status)

SpecSwap == Init /\ [][NextSwap]_vars

(***************************************************************************)
(* SpecRelayDemo: the handlers of the relay demo page. Here `page` is the  *)
(* relay demo page: the credentials typed, the auth state (the state       *)
(* variables and their refs are written together, and are one field        *)
(* each), and the calls of sdk.createRelayRequest made.                    *)
(***************************************************************************)
MaxRequests == 2

\* authTokenRef.current = null
NoAuth == [held |-> FALSE, token |-> "", tier |-> "", expired |-> FALSE]

\* useState initial values of the page
InitialRelayDemo ==
    [clientIdInput |-> "", apiKeyInput |-> "", authenticating |-> FALSE,
     jwtToken |-> "", authToken |-> NoAuth, tier |-> "",
     showAuthBadge |-> FALSE, showTokenInfo |-> FALSE, showClearAuth |-> FALSE,
     proofBtnDisabled |-> TRUE, demoIniting |-> FALSE, authStatus |-> "",
     login |-> <<>>, requests |-> 0, op |-> "none", did |-> "none"]

InitRelayDemo ==
    /\ now = 0
    /\ store = <<>>
    /\ clients = <<>>
    /\ streamState = [c \in Controllers |-> "new"]
    /\ chunks = [c \in Controllers |-> <<>>]
    /\ last = NoCall
    /\ broadcasts = 0
    /\ lastWrite = [id \in RequestIds |-> NoWrite]
    /\ removed = {}
    /\ proxy = NoProxyCall
    /\ page = InitialRelayDemo

\* The answers of sdk.login: an AuthToken (the server may send any token
\* text and tier), or an error.
LoginOutcomes ==
    { [ok |-> TRUE, token |-> "jwt", tier |-> "free"],
      [ok |-> TRUE, token |-> "jwt", tier |-> "credit"],
      [ok |-> TRUE, token |-> "", tier |-> "free"],
      [ok |-> FALSE, token |-> "", tier |-> ""] }

Circuits == {"coinbase_attestation", "coinbase_country_attestation"}

CountryLists == {"", "US"}

\* ProofportSDK.isTokenValid(auth): the SDK's test of the token's expiry
isTokenValid(auth) == ~auth.expired

setClientIdInput(v) ==
    /\ page' = [page EXCEPT !.clientIdInput = v, !.op = "none", !.did = "none"]
    /\ UNCHANGED <<serverVars, proxy>>

setApiKeyInput(v) ==
    /\ page' = [page EXCEPT !.apiKeyInput = v, !.op = "none", !.did = "none"]
    /\ UNCHANGED <<serverVars, proxy>>

\* handleAuthenticate() up to its await of sdk.login; the button is disabled
\* while authenticating
handleAuthenticate ==
    /\ ~page.authenticating
    /\ IF page.clientIdInput = "" \/ page.apiKeyInput = ""
       THEN PageStep([page EXCEPT !.authStatus = "Both Client ID and API Key are required",
                                  !.op = "handleAuthenticate", !.did = "rejected"])
       ELSE PageStep([page EXCEPT !.authenticating = TRUE,
                                  !.authStatus = "Authenticating...",
                                  !.login = <<[clientId |-> page.clientIdInput,
                                               apiKey |-> page.apiKeyInput]>>,
                                  !.op = "handleAuthenticate", !.did = "login"])

\* handleAuthenticate() after sdk.login answered: the try, the catch and the finally
loginAnswered(outcome) ==
    /\ page.login # <<>>
    /\ IF outcome.ok
       THEN PageStep([page EXCEPT
                !.jwtToken = outcome.token,
                !.authToken = [held |-> TRUE, token |-> outcome.token,
                               tier |-> outcome.tier, expired |-> FALSE],
                !.tier = outcome.tier,
                !.showAuthBadge = TRUE, !.showTokenInfo = TRUE, !.showClearAuth = TRUE,
                !.proofBtnDisabled = FALSE,
                !.authStatus = "Authenticated successfully",
                !.authenticating = FALSE, !.login = <<>>,
                !.op = "handleAuthenticate", !.did = "authenticated"])
       ELSE PageStep([page EXCEPT
                !.authStatus = "Auth failed",
                !.authenticating = FALSE, !.login = <<>>,
                !.op = "handleAuthenticate", !.did = "failed"])

\* handleClearAuth(): the page after it
clearAuth(p) ==
    [p EXCEPT !.jwtToken = "", !.authToken = NoAuth, !.tier = "",
              !.showAuthBadge = FALSE, !.showTokenInfo = FALSE, !.authStatus = "",
              !.showClearAuth = FALSE, !.clientIdInput = "", !.apiKeyInput = "",
              !.proofBtnDisabled = TRUE]

\* The Clear Auth button is shown while showClearAuth.
handleClearAuth ==
    /\ page.showClearAuth
    /\ PageStep([clearAuth(page) EXCEPT !.op = "handleClearAuth", !.did = "cleared"])

\* handleInitDemo(): enables the proof button; its own button stays disabled
handleInitDemo ==
    /\ ~page.demoIniting
    /\ PageStep([page EXCEPT !.demoIniting = TRUE, !.proofBtnDisabled = FALSE,
                             !.op = "handleInitDemo", !.did = "ready"])

\* The token the page holds reaches its expiry.
tokenExpires ==
    /\ page.authToken.held
    /\ ~page.authToken.expired
    /\ PageStep([page EXCEPT !.authToken.expired = TRUE, !.op = "none", !.did = "none"])

\* handleRequestProof() up to its call of sdk.createRelayRequest: the page after it
requestProofUnchecked(p, circuit, countryListInput) ==
    IF p.jwtToken = ""
    THEN [p EXCEPT !.op = "handleRequestProof", !.did = "alert: authenticate first"]
    ELSE IF circuit = "coinbase_country_attestation" /\ countryListInput = ""
    THEN [p EXCEPT !.op = "handleRequestProof", !.did = "alert: country list"]
    ELSE [p EXCEPT !.requests = @ + 1,
                   !.op = "handleRequestProof", !.did = "createRelayRequest"]

requestProof(p, circuit, countryListInput) ==
    IF p.jwtToken = ""
    THEN [p EXCEPT !.op = "handleRequestProof", !.did = "alert: authenticate first"]
    ELSE IF p.authToken.held /\ ~isTokenValid(p.authToken)
    THEN [clearAuth(p) EXCEPT !.op = "handleRequestProof", !.did = "alert: token expired"]
    ELSE IF circuit = "coinbase_country_attestation" /\ countryListInput = ""
    THEN [p EXCEPT !.op = "handleRequestProof", !.did = "alert: country list"]
    ELSE [p EXCEPT !.requests = @ + 1,
                   !.op = "handleRequestProof", !.did = "createRelayRequest"]

\* The proof button is disabled while proofBtnDisabled.
handleRequestProof(circuit, countryListInput) ==
    /\ ~page.proofBtnDisabled
    /\ page.requests < MaxRequests
    /\ PageStep(requestProof(page, circuit, countryListInput))

NextRelayDemo ==
    \/ \E v \in {"", "client"} : setClientIdInput(v)
    \/ \E v \in {"", "key"} : setApiKeyInput(v)
    \/ handleAuthenticate
    \/ \E outcome \in LoginOutcomes : loginAnswered(outcome)
    \/ handleClearAuth
    \/ handleInitDemo
    \/ tokenExpires
    \/ \E circuit \in Circuits, countryListInput \in CountryLists :
          handleRequestProof(circuit, countryListInput)

SpecRelayDemo == InitRelayDemo /\ [][NextRelayDemo]_vars

(***************************************************************************)
(* Claims about the result store (SpecStore).                              *)
(***************************************************************************)
\* The state right after getResult(id) ran on an id that storeResult wrote.
ReadOfWritten ==
    /\ last.op = "getResult"
    /\ lastWrite[last.id].written

\* C1, as stated: after storeResult(id, payload) at time t with no later
\* storeResult(id, ...), a getResult(id) at time t' returns payload when
\* t' < t + 300000 and null when t' >= t + 300000, the read at exactly
\* t + 300000 included.
C1_TTLExpiryAsClaimed ==
    ReadOfWritten =>
        IF now < lastWrite[last.id].t + 300000
        THEN last.ret = lastWrite[last.id].data
        ELSE last.ret = JSNull

\* C1, amended: the read returns payload for every t' <= t + 300000, the
\* read at exactly t + 300000 included, and null for every t' > t + 300000.
C1_TTLExpiry ==
    ReadOfWritten =>
        IF now <= lastWrite[last.id].t + 300000
        THEN last.ret = lastWrite[last.id].data
        ELSE last.ret = JSNull

\* A read at exactly t + 300000 that returned the payload.
C1_Witness ==
    /\ ReadOfWritten
    /\ now = lastWrite[last.id].t + 300000
    /\ last.ret = lastWrite[last.id].data
    /\ last.ret # JSNull

\* C2: the store holds at most one payload per requestId, and once
\* storeResult(id, A) was followed by storeResult(id, B) before A expired,
\* every getResult(id) before expiry returns B, and never A.
C2_Overwrite ==
    /\ \A i, j \in 1..Len(store) : store[i].key = store[j].key => i = j
    /\ (ReadOfWritten /\ lastWrite[last.id].over /\ now < lastWrite[last.id].t + 300000) =>
          /\ last.ret = lastWrite[last.id].data
          /\ lastWrite[last.id].prev # lastWrite[last.id].data
                => last.ret # lastWrite[last.id].prev

\* A read, before expiry, of an id whose payload A was replaced by another payload B.
C2_Witness ==
    /\ ReadOfWritten
    /\ lastWrite[last.id].over
    /\ lastWrite[last.id].prev = PendingR1
    /\ lastWrite[last.id].data = CompletedR1
    /\ now < lastWrite[last.id].t + 300000
    /\ last.ret = CompletedR1

C19_LazyEviction ==
    [][ last'.op = "getResult" =>
          IF MapHas(store, last'.id) /\ MapGet(store, last'.id).expiresAt < now
          THEN /\ last'.ret = JSNull
               /\ store' = SelectSeq(store, LAMBDA e : e.key # last'.id)
               /\ Len(store') = Len(store) - 1
          ELSE store' = store
      ]_vars

\* A read that evicted the expired entry of its id and left the entry of
\* another id, expired as well, in the store.
C19_Witness ==
    /\ last.op = "getResult"
    /\ last.ret = JSNull
    /\ lastWrite[last.id].written
    /\ lastWrite[last.id].t + 300000 < now
    /\ ~MapHas(store, last.id)
    /\ \E i \in 1..Len(store) : store[i].expiresAt < now

\* C20: every storeResult(id, data) sets the entry's expiresAt to the time
\* of that call plus 300000 ms, whatever entry of the id it replaces, so
\* the id is readable until that time and no longer; reads leave the
\* expiresAt of every entry as it is.
C20_TTLRefresh ==
    [][ /\ last'.op = "storeResult" =>
              /\ MapHas(store', last'.id)
              /\ MapGet(store', last'.id).expiresAt = now + 300000
        /\ last'.op = "getResult" =>
              /\ \A i \in 1..Len(store') : \E j \in 1..Len(store) : store[j] = store'[i]
              /\ lastWrite[last'.id].written =>
                    IF now <= lastWrite[last'.id].t + 300000
                    THEN last'.ret = lastWrite[last'.id].data
                    ELSE last'.ret = JSNull
      ]_vars

\* A storeResult at a time t2 > 0 that replaced the entry stored at time 0:
\* the entry now expires at t2 + 300000, later than the one it replaced.
C20_Witness ==
    /\ last.op = "storeResult"
    /\ last.replaced = 300000
    /\ now > 0
    /\ MapHas(store, last.id)
    /\ MapGet(store, last.id).expiresAt = now + 300000

(***************************************************************************)
(* Claims about the SSE broadcaster (SpecSSE).                             *)
(***************************************************************************)
\* The delivery attempts a broadcast made on listener c.
AttemptsOn(call, c) == {k \in 1..Len(call.attempts) : call.attempts[k].client = c}

\* The frame "data: <JSON of event>\n\n": its JSON text parses back to the event's fields.
IsFrameOf(message, event) ==
    /\ message.prefix = "data: "
    /\ message.terminator = "\n\n"
    /\ message.type = event.type
    /\ message.timestamp = event.timestamp
    /\ JSONparse(message.data) = event.data

\* C4: with N listeners registered when broadcast(event) is called, the call
\* makes exactly N delivery attempts, exactly one per registered listener,
\* each carrying the same frame "data: <JSON of event>\n\n", also when
\* attempts fail and remove listeners during the iteration.
C4_FanOut ==
    [][ last'.op = "broadcastSSE" =>
          /\ Len(last'.attempts) = Len(clients)
          /\ \A c \in Members(clients) : Cardinality(AttemptsOn(last', c)) = 1
          /\ \A k \in 1..Len(last'.attempts) :
                /\ last'.attempts[k].client \in Members(clients)
                /\ IsFrameOf(last'.attempts[k].message, last'.event)
                /\ last'.attempts[k].message = last'.attempts[1].message
       ]_vars

\* A broadcast to two listeners whose first attempt failed.
C4_Witness ==
    /\ last.op = "broadcastSSE"
    /\ Len(last.attempts) = 2
    /\ ~last.attempts[1].ok
    /\ last.attempts[2].ok

\* C5: when some registered listeners have a closed connection, broadcast(event)
\* does not throw, delivers the frame to every live registered listener (and
\* nothing to any other stream), and leaves in the registry exactly the
\* listeners whose write succeeded.
C5_DeadListenerIsolation ==
    [][ last'.op = "broadcastSSE" =>
          /\ ~last'.threw
          /\ \A c \in Controllers :
                IF c \in Members(clients) /\ streamState[c] = "readable"
                THEN /\ Len(chunks'[c]) = Len(chunks[c]) + 1
                     /\ SubSeq(chunks'[c], 1, Len(chunks[c])) = chunks[c]
                     /\ IsFrameOf(chunks'[c][Len(chunks'[c])], last'.event)
                ELSE chunks'[c] = chunks[c]
          /\ Members(clients') =
                {c \in Members(clients) :
                    \E k \in AttemptsOn(last', c) : last'.attempts[k].ok}
          /\ Members(clients') = {c \in Members(clients) : streamState[c] = "readable"}
          /\ Len(clients') = Cardinality(Members(clients'))
       ]_vars

\* A broadcast that found a dead listener before a live one: the live one got
\* the frame and stays registered, the dead one is gone.
C5_Witness ==
    /\ last.op = "broadcastSSE"
    /\ Len(last.attempts) = 2
    /\ ~last.attempts[1].ok
    /\ last.attempts[2].ok
    /\ clients = <<last.attempts[2].client>>
    /\ Len(chunks[last.attempts[2].client]) = 1
    /\ chunks[last.attempts[1].client] = <<>>

\* C9: removeListener(x) called again, or for a listener that is not
\* registered, does not throw and leaves the registry unchanged; the first
\* removeListener(x) leaves the registry without x and with every other
\* listener still registered, in the same order.
C9_IdempotentRemoval ==
    [][ last'.op = "removeSSEClient" =>
          /\ ~last'.threw
          /\ Members(clients') = Members(clients) \ {last'.client}
          /\ Len(clients') = Cardinality(Members(clients'))
          /\ \A i, j \in 1..Len(clients') :
                i < j => \E a, b \in 1..Len(clients) :
                            a < b /\ clients[a] = clients'[i] /\ clients[b] = clients'[j]
          /\ last'.client \notin Members(clients) => clients' = clients
       ]_vars

\* A second removeListener(x): x was removed by an earlier call, is not
\* registered, and another listener is.
C9_Witness ==
    /\ last.op = "removeSSEClient"
    /\ ~last.member
    /\ last.client \in removed
    /\ clients # <<>>

(***************************************************************************)
(* Claims about the route handlers (Spec).                                 *)
(***************************************************************************)
\* The bodies that are a JSON object with a string requestId.
BodiesWithId ==
    { "{\"requestId\":\"r1\",\"status\":\"pending\"}",
      " { \"requestId\" : \"r1\", \"status\" : \"completed\" } " }

\* The bodies with no string requestId: a number as requestId, no requestId,
\* JSON that is no object, text that is no JSON, the empty text.
BodiesWithoutId ==
    { "{\"requestId\":7,\"status\":\"completed\"}",
      "{\"status\":\"completed\"}",
      "null", "0", "not json", "" }

\* Frame m is a proof-callback envelope whose data is the value v.
IsCallbackFrame(m, v) ==
    /\ m.prefix = "data: "
    /\ m.terminator = "\n\n"
    /\ m.type = "proof-callback"
    /\ JSONparse(m.data) = v

\* Stream c got exactly one more frame, a proof-callback envelope with data v.
GotOne(c, v) ==
    /\ Len(chunks'[c]) = Len(chunks[c]) + 1
    /\ SubSeq(chunks'[c], 1, Len(chunks[c])) = chunks[c]
    /\ IsCallbackFrame(chunks'[c][Len(chunks'[c])], v)

\* C3 (a): the POST of a JSON object with a string requestId r stores exactly
\* the parsed object under r, and a later lookup of r, before expiry and
\* with no later write, returns it.
C3_Stored ==
    /\ (last.op = "POST /callback" /\ last.body \in BodiesWithId) =>
          /\ last.id = JSONparse(last.body).rid
          /\ lastWrite[last.id].data = JSONparse(last.body)
          /\ \E i \in 1..Len(store) :
                store[i].key = last.id /\ store[i].data = JSONparse(last.body)
    /\ (last.op = "GET /results" /\ lastWrite[last.id].written
            /\ now < lastWrite[last.id].t + 300000) =>
          last.ret = lastWrite[last.id].data

\* C3: the POST of a JSON object with a string requestId r makes (a) the
\* lookup of r return that object and (b) every listener registered at
\* that moment receive one proof-callback envelope whose data is the object.
C3_Pipeline ==
    [][ (last'.op = "POST /callback" /\ last'.body \in BodiesWithId) =>
          /\ C3_Stored'
          /\ \A c \in Members(clients) : GotOne(c, JSONparse(last'.body))
       ]_vars

\* C7: the POST of a body with no string requestId broadcasts exactly one
\* proof-callback event to the registered listeners (one delivery attempt on
\* each, one new frame on each open one, nothing on any other stream) and
\* leaves the entries of the Result Store unchanged.
C7_MissingIdentifier ==
    [][ (last'.op = "POST /callback" /\ last'.body \in BodiesWithoutId) =>
          /\ store' = store
          /\ lastWrite' = lastWrite
          /\ Len(last'.attempts) = Len(clients)
          /\ \A c \in Members(clients) : Cardinality(AttemptsOn(last', c)) = 1
          /\ \A k \in 1..Len(last'.attempts) :
                IsCallbackFrame(last'.attempts[k].message, last'.event.data)
          /\ \A c \in Controllers :
                IF c \in Members(clients) /\ streamState[c] = "readable"
                THEN GotOne(c, last'.event.data)
                ELSE chunks'[c] = chunks[c]
       ]_vars

\* A POST with a number as requestId, sent while an open and a dead listener
\* were registered: the open one has the event, the store has no entry.
C7_Witness ==
    /\ last.op = "POST /callback"
    /\ last.body = "{\"requestId\":7,\"status\":\"completed\"}"
    /\ store = <<>>
    /\ Len(last.attempts) = 2
    /\ \E k \in 1..2 : ~last.attempts[k].ok
    /\ \E c \in Controllers :
          /\ Len(chunks[c]) = 2
          /\ chunks[c][2].type = "proof-callback"
          /\ JSONparse(chunks[c][2].data) = NumericId

\* C8: getResult(id) for an id that was never stored returns null and leaves
\* the Result Store and the listener registry as they were.
C8_UnknownId ==
    [][ (last'.op = "GET /results" /\ ~lastWrite[last'.id].written) =>
          /\ last'.ret = JSNull
          /\ store' = store
          /\ clients' = clients
          /\ chunks' = chunks
       ]_vars

\* A lookup of a never-stored id while the store holds an expired entry of
\* another id and a listener is registered.
C8_Witness ==
    /\ last.op = "GET /results"
    /\ ~lastWrite[last.id].written
    /\ last.ret = JSNull
    /\ clients # <<>>
    /\ \E i \in 1..Len(store) : store[i].expiresAt < now

\* C10: the POST callback endpoint answers {success: true} for every body
\* and every state of the registry, dead listeners included: it never
\* answers an error and never throws.
C10_AlwaysAcknowledges ==
    last.op = "POST /callback" =>
        /\ last.status = 200
        /\ last.success
        /\ ~last.threw

\* A POST of text that is no JSON, answered while a dead listener was registered.
C10_Witness ==
    /\ last.op = "POST /callback"
    /\ last.body = "not json"
    /\ \E k \in 1..Len(last.attempts) : ~last.attempts[k].ok
    /\ last.success

(***************************************************************************)
(* Claims about GET /results (SpecResults).                                *)
(***************************************************************************)
\* The store holds an entry of id that has not expired at time t.
HoldsUnexpired(m, id, t) == MapHas(m, id) /\ ~(MapGet(m, id).expiresAt < t)

C12_ConnectedFirst ==
    \A c \in Controllers :
        /\ streamState[c] = "readable" => chunks[c] # <<>>
        /\ chunks[c] # <<>> =>
              /\ chunks[c][1] = ConnectedFrame
              /\ \A k \in 2..Len(chunks[c]) :
                    /\ chunks[c][k].type = "proof-callback"
                    /\ chunks[c][k].prefix = "data: "

\* A stream that got its connected frame and then the events of two callbacks.
C12_Witness ==
    \E c \in Controllers :
        /\ Len(chunks[c]) = 3
        /\ chunks[c][1].type = "connected"
        /\ chunks[c][2].type = "proof-callback"
        /\ chunks[c][3].type = "proof-callback"
        /\ chunks[c][2] # chunks[c][3]

\* C13: a listener is in the registry from the moment its stream is opened,
\* and the cancel of its stream by the client removes it, with no later
\* broadcast needed: after a cancel the registry does not contain it.
C13_CancelDeregisters ==
    [][ /\ last'.op = "GET /events" => last'.client \in Members(clients')
        /\ last'.op = "cancel" => last'.client \notin Members(clients')
      ]_vars

\* C14: a listener that registers after a broadcast ran never receives that
\* event: the stream it opens holds the connected frame only, a callback
\* adds its one frame to listeners registered when it runs and to no other
\* stream, and no other step adds a frame to any stream.
C14_NoReplay ==
    [][ \A c \in Controllers :
          IF last'.op = "POST /callback"
          THEN \/ chunks'[c] = chunks[c]
               \/ /\ c \in Members(clients)
                  /\ chunks'[c] = Append(chunks[c], Message(last'.event))
          ELSE IF last'.op = "GET /events" /\ last'.client = c
               THEN chunks'[c] = <<ConnectedFrame>>
               ELSE chunks'[c] = chunks[c] \/ chunks'[c] = <<>>
      ]_vars

\* A stream opened after a callback was broadcast to another listener: the
\* earlier listener holds the event, the new one its connected frame only.
C14_Witness ==
    /\ last.op = "GET /events"
    /\ broadcasts >= 1
    /\ chunks[last.client] = <<ConnectedFrame>>
    /\ \E d \in Controllers :
          /\ d # last.client
          /\ Len(chunks[d]) = 2
          /\ chunks[d][2].type = "proof-callback"

\* C15: for any interleaving of callbacks carrying the same requestId, once
\* they have completed the store holds exactly one entry of that id, whose
\* payload is that of the callback whose store write ran last: no mixture
\* of payloads, and no lost entry (the entry is there until it expires).
C15_LastWriteWins ==
    /\ \A i, j \in 1..Len(store) : store[i].key = store[j].key => i = j
    /\ \A i \in 1..Len(store) :
          /\ store[i].key \in RequestIds
          /\ lastWrite[store[i].key].written
          /\ store[i].data = lastWrite[store[i].key].data
          /\ store[i].expiresAt = lastWrite[store[i].key].t + 300000
    /\ \A id \in RequestIds :
          (lastWrite[id].written /\ now <= lastWrite[id].t + 300000)
              => \E i \in 1..Len(store) : store[i].key = id

\* Two callbacks of requestId r1 completed, the one with status completed
\* last: the store holds its payload, and not the pending one it replaced.
C15_Witness ==
    /\ last.op = "POST /callback"
    /\ broadcasts = 2
    /\ lastWrite["r1"].over
    /\ lastWrite["r1"].prev = PendingR1
    /\ lastWrite["r1"].data = CompletedR1
    /\ Len(store) = 1
    /\ store[1].data = CompletedR1

(***************************************************************************)
(* Claims about the reverse proxies (SpecProxy).                           *)
(***************************************************************************)
\* The upstream and the path prefix of a route, and the label of its errors.
UpstreamOf(route) == IF route = "proxy" THEN API_URL ELSE RELAY_URL

PrefixOf(route) == IF route = "proxy" THEN "/api/" ELSE "/api/v1/"

LabelOf(route) == IF route = "proxy" THEN "Proxy error" ELSE "Relay proxy error"

\* C16: for a request to /proxy/{p} the forwarder calls the API upstream at
\* /api/{p}, and for /relay/{p} the relay upstream at /api/v1/{p}, with the
\* same method and (for methods other than GET and HEAD) the same body, and
\* returns the upstream's status code and body unchanged for every upstream
\* status, 4xx and 5xx included.
C16_PassThrough ==
    (proxy.route # "" /\ proxy.request.method \in ProxyMethods) =>
        /\ Len(proxy.calls) = 1
        /\ proxy.calls[1].base = UpstreamOf(proxy.route)
        /\ proxy.calls[1].path = PrefixOf(proxy.route) \o joinPath(proxy.request.path)
        /\ proxy.calls[1].method = proxy.request.method
        /\ proxy.request.method \notin {"GET", "HEAD"} =>
              /\ proxy.calls[1].body.defined
              /\ proxy.calls[1].body.text = proxy.request.body
        /\ proxy.outcome.kind = "response" =>
              /\ proxy.response.status = proxy.outcome.status
              /\ proxy.response.body = proxy.outcome.body

\* C17: when the call to the upstream fails at transport level, both
\* forwarders respond 502 with a JSON body of the fields error and details,
\* let no exception reach their caller, and make exactly one upstream
\* attempt for the inbound request.
C17_UpstreamFailure ==
    (proxy.route # "" /\ proxy.outcome.kind = "fail") =>
        /\ proxy.response.status = 502
        /\ proxy.response.body = ErrorJSON(LabelOf(proxy.route), "TypeError: fetch failed")
        /\ proxy.response.contentType = "application/json"
        /\ ~proxy.threw
        /\ Len(proxy.calls) = 1

\* A POST to the relay route whose fetch was rejected, answered with the 502.
C17_Witness ==
    /\ proxy.route = "relay"
    /\ proxy.request.method = "POST"
    /\ proxy.outcome.kind = "fail"
    /\ proxy.response.status = 502

(***************************************************************************)
(* Claims about the ZKPSwap page (SpecSwap).                               *)
(***************************************************************************)
\* The swap button was clicked with the wallet connected, on a valid amount
\* the balance covers.
SwapClick ==
    /\ page'.op = "handleSwap"
    /\ page.walletConnected
    /\ page.fromAmount > 0
    /\ page.fromAmount <= page.balance[page.fromToken]

\* C18: a trade whose USD value is under $10,000 executes without a proof,
\* and a trade whose USD value exceeds $10,000 requires the proof before it
\* executes when the user is not verified, for every from-token and amount.
C18_ConditionalProof ==
    [][ SwapClick =>
          /\ usdValue(page.fromAmount, page.fromToken) < USD(10000)
                => page'.did = "executeSwap"
          /\ (usdValue(page.fromAmount, page.fromToken) > USD(10000) /\ ~page.kycVerified)
                => (page'.did = "openKycModal" /\ page'.pending = page.pending)
      ]_vars

(***************************************************************************)
(* Claims about the callback envelope (Spec).                              *)
(***************************************************************************)
\* C21: the data of the proof-callback envelope of a POST callback is the
\* parsed value whenever the body is well-formed JSON, for every JSON
\* value, null, false, 0 and the empty string included, and is the raw
\* body text exactly when the body is not well-formed JSON.
C21_PayloadSelection ==
    last.op = "POST /callback" =>
        /\ last.event.type = "proof-callback"
        /\ IF JSONparse(last.body) # SyntaxError
           THEN last.event.data = JSONparse(last.body)
           ELSE last.event.data = JSString(last.body)

\* The values of a key among the query pairs.
ValuesOf(query, key) == {query[i].value : i \in {j \in 1..Len(query) : query[j].key = key}}

\* The object is the map of the query pairs: it has the keys of the query
\* and no other, each with the value the query gives it last.
IsQueryMap(obj, query) ==
    /\ obj.t = "object"
    /\ (obj.ridT = "string") = (ValuesOf(query, "requestId") # {})
    /\ obj.ridT # "string" => (obj.ridT = "undefined" /\ obj.rid = "")
    /\ obj.ridT = "string" => obj.rid = query[CHOOSE i \in 1..Len(query) :
                                  /\ query[i].key = "requestId"
                                  /\ \A j \in (i + 1)..Len(query) : query[j].key # "requestId"].value
    /\ (obj.status = "") = (ValuesOf(query, "status") = {})
    /\ obj.status # "" => obj.status = query[CHOOSE i \in 1..Len(query) :
                                  /\ query[i].key = "status"
                                  /\ \A j \in (i + 1)..Len(query) : query[j].key # "status"].value

\* C22: a GET to the callback endpoint broadcasts exactly one proof-callback
\* envelope whose data is the map of the query parameters (one delivery
\* attempt on each registered listener, one new frame on each open one),
\* responds {success: true, received: <query>}, and leaves the Result Store
\* unchanged, also when the query has a requestId parameter.
C22_GetCallback ==
    [][ last'.op = "GET /callback" =>
          /\ store' = store
          /\ lastWrite' = lastWrite
          /\ last'.event.type = "proof-callback"
          /\ IsQueryMap(last'.event.data, last'.query)
          /\ last'.status = 200 /\ last'.success
          /\ last'.data = last'.event.data
          /\ Len(last'.attempts) = Len(clients)
          /\ \A c \in Members(clients) : Cardinality(AttemptsOn(last', c)) = 1
          /\ \A c \in Controllers :
                IF c \in Members(clients) /\ streamState[c] = "readable"
                THEN GotOne(c, last'.event.data)
                ELSE chunks'[c] = chunks[c]
      ]_vars

\* A GET callback with requestId=r1 in its query, received while the store
\* held the entry of r1 from a POST and a listener was open: the listener
\* has the query as an event, and the store still holds the POST's payload.
C22_Witness ==
    /\ last.op = "GET /callback"
    /\ hasKey(last.query, "requestId")
    /\ last.event.data = CompletedR1
    /\ Len(store) = 1
    /\ store[1].data = PendingR1
    /\ \E c \in Controllers :
          /\ Len(chunks[c]) >= 2
          /\ IsCallbackFrame(chunks[c][Len(chunks[c])], CompletedR1)

(***************************************************************************)
(* More claims about the reverse proxies (SpecProxy).                      *)
(***************************************************************************)
\* How many times the pair (key, value) occurs among the query pairs.
PairCount(query, key, value) ==
    Cardinality({i \in 1..Len(query) : query[i].key = key /\ query[i].value = value})

\* The two lists of query pairs hold the same multiset of pairs.
SamePairs(q1, q2) ==
    /\ Len(q1) = Len(q2)
    /\ \A i \in 1..Len(q1) :
          PairCount(q1, q1[i].key, q1[i].value) = PairCount(q2, q1[i].key, q1[i].value)

\* C23: the multiset of (key, value) query pairs sent to the upstream
\* equals that of the inbound request, also when a key occurs more than once.
C23_QueryVerbatim ==
    (proxy.route # "" /\ proxy.request.method \in ProxyMethods) =>
        /\ Len(proxy.calls) = 1
        /\ SamePairs(proxy.request.query, proxy.calls[1].query)

HoldsFrameOf(c, r, t) ==
    \E k \in 1..Len(chunks[c]) :
        /\ chunks[c][k].type = "proof-callback"
        /\ chunks[c][k].timestamp = t
        /\ JSONparse(chunks[c][k].data).ridT = "string"
        /\ JSONparse(chunks[c][k].data).rid = r

\* C25: store before broadcast. In the step of a POST callback that delivers
\* an event with a string requestId r to a listener, the store after the
\* step holds the entry of r with the event's data, and getResult(r) at
\* that moment returns it; and in every state a listener that holds such a
\* frame of a POST sent less than the TTL ago finds r in the store.
C25_StoreBeforeBroadcast ==
    /\ [][ \A c \in Controllers :
             ( /\ last'.op = "POST /callback"
               /\ chunks'[c] # chunks[c]
               /\ last'.event.data.ridT = "string" ) =>
                 LET r == last'.event.data.rid IN
                 /\ chunks'[c] = Append(chunks[c], Message(last'.event))
                 /\ MapHas(store', r)
                 /\ MapGet(store', r).data = last'.event.data
                 /\ getResult(store', r, now').ret = last'.event.data
         ]_vars
    /\ [](\A c \in Controllers : \A k \in 1..Len(chunks[c]) :
             LET data == JSONparse(chunks[c][k].data) IN
             ( /\ HoldsFrameOf(c, data.rid, chunks[c][k].timestamp)
               /\ now < chunks[c][k].timestamp + RESULT_TTL ) =>
                 /\ MapHas(store, data.rid)
                 /\ getResult(store, data.rid, now).ret # JSNull)

\* A lookup of r1 that finds the entry, issued while a listener holds the
\* event that the second of two callbacks of r1 delivered.
C25_Witness ==
    /\ last.op = "GET /results"
    /\ last.id = "r1"
    /\ last.found
    /\ broadcasts = 2
    /\ \E c \in Controllers :
          /\ Len(chunks[c]) = 3
          /\ HoldsFrameOf(c, "r1", now)
          /\ JSONparse(chunks[c][3].data) = last.ret

\* The proof-callback frames on stream c whose data has the string requestId r.
CarriesId(m, r) ==
    /\ m.type = "proof-callback"
    /\ JSONparse(m.data).ridT = "string"
    /\ JSONparse(m.data).rid = r

FramesOf(c, r) == SelectSeq(chunks[c], LAMBDA m : CarriesId(m, r))

\* Listener c has been connected since before the first callback: its stream
\* is open and holds the connected frame and one frame for every callback.
GotAll(c) == streamState[c] = "readable" /\ Len(chunks[c]) = broadcasts + 1

\* C26: push and pull agree. A POST callback with a string requestId r
\* appends its event to every open registered stream in the step of its
\* store write, so the events of r reach a continuously connected listener
\* in the order of the writes: on such a listener the last frame of r is
\* the payload written last (and the one before it the payload that write
\* replaced), which is what getResult(r) returns before expiry.
C26_PushPullAgree ==
    /\ [][ (last'.op = "POST /callback" /\ last'.id # "") =>
             /\ MapGet(store', last'.id).data = last'.event.data
             /\ lastWrite'[last'.id].data = last'.event.data
             /\ \A c \in Members(clients) :
                   streamState[c] = "readable" =>
                       chunks'[c] = Append(chunks[c], Message(last'.event))
         ]_vars
    /\ [](\A c \in Controllers, r \in RequestIds :
             (GotAll(c) /\ lastWrite[r].written) =>
                 LET f == FramesOf(c, r) IN
                 /\ f # <<>>
                 /\ JSONparse(f[Len(f)].data) = lastWrite[r].data
                 /\ lastWrite[r].over =>
                       /\ Len(f) >= 2
                       /\ JSONparse(f[Len(f) - 1].data) = lastWrite[r].prev
                 /\ now <= lastWrite[r].t + RESULT_TTL =>
                       getResult(store, r, now).ret = JSONparse(f[Len(f)].data))

\* Two callbacks of r1 with different payloads reached a listener connected
\* before both, the pending one first, and the store holds the later one.
C26_Witness ==
    \E c \in Controllers :
        /\ GotAll(c)
        /\ broadcasts = 2
        /\ Len(FramesOf(c, "r1")) = 2
        /\ JSONparse(FramesOf(c, "r1")[1].data) = PendingR1
        /\ JSONparse(FramesOf(c, "r1")[2].data) = CompletedR1
        /\ getResult(store, "r1", now).ret = CompletedR1

\* The listeners on which the call recorded in `call` failed to write.
FailedOn(call) ==
    {call.attempts[k].client : k \in {j \in 1..Len(call.attempts) : ~call.attempts[j].ok}}

\* C27: the two singletons are separate. storeResult and getResult leave the
\* registry (and every stream) as it was; addSSEClient, removeSSEClient and
\* broadcastSSE leave every entry of the Result Store as it was; and a
\* broadcast takes out of the registry exactly the listeners whose write
\* failed, which are those whose stream is not open, keeping the others in
\* their order.
C27_Separation ==
    [][ /\ last'.op \in {"storeResult", "getResult"} =>
              /\ clients' = clients
              /\ chunks' = chunks
              /\ streamState' = streamState
        /\ last'.op \in {"addSSEClient", "removeSSEClient", "broadcastSSE"} =>
              /\ store' = store
              /\ lastWrite' = lastWrite
        /\ (last'.op = "broadcastSSE" /\ broadcasts' = broadcasts + 1) =>
              /\ FailedOn(last') = {c \in Members(clients) : streamState[c] # "readable"}
              /\ clients' = SelectSeq(clients, LAMBDA c : c \notin FailedOn(last'))
      ]_vars

\* A broadcast over a store that holds r1 and a registry of two listeners,
\* one of them on a closed stream: that one is removed, the other is kept,
\* and the entry is still in the store.
C27_Witness ==
    /\ last.op = "broadcastSSE"
    /\ Len(last.attempts) = 2
    /\ Cardinality(FailedOn(last)) = 1
    /\ Len(clients) = 1
    /\ MapHas(store, "r1")

(***************************************************************************)
(* Claims about the ZKPSwap gate and balances (SpecSwap).                  *)
(***************************************************************************)
\* The step is the balance update of an executeSwap.
SwapExecuted == page'.op = "executeSwap" /\ page'.did = "swapped" /\ page'.balance # page.balance

\* C28: no swap with amount >= KYC_THRESHOLD is executed while kycVerified
\* is false; kycVerified turns true only in the handling of a proof result
\* with status completed (a reload keeps the value of session storage);
\* and a proof result that is not completed neither sets kycVerified nor
\* executes a swap.
C28_KycGate ==
    [][ /\ (SwapExecuted /\ page'.swap.amount >= Tokens(KYC_THRESHOLD)) => page.kycVerified
        /\ (~page.kycVerified /\ page'.kycVerified) =>
              (page'.op = "handleProofResult" /\ page'.did = "executeSwap")
        /\ (page'.op = "handleProofResult" /\ page'.did = "none"
                /\ Len(page'.proofs) < Len(page.proofs)) =>
              /\ page'.kycVerified = page.kycVerified
              /\ page'.pending = page.pending
              /\ page'.balance = page.balance
      ]_vars

\* C29: no balance ever goes negative: for every sequence of swap clicks,
\* proof completions and swap executions, two proof requests outstanding
\* at once included, every token balance is >= 0, that is, no executed swap
\* debits more than the from-token balance at the time of the debit.
C29_NonNegativeBalances ==
    \A token \in Symbols : page.balance[token] >= 0

(***************************************************************************)
(* Claims about the relay demo page (SpecRelayDemo).                       *)
(***************************************************************************)
\* The step is a run of handleRequestProof.
RequestProofStep == page'.op = "handleRequestProof" /\ page' # page

\* C30: handleRequestProof creates a relay proof request only when a JWT
\* token is held and the held auth token is still valid (and no other
\* handler creates one); with no token it makes no request and leaves the
\* auth state as it is; with an expired token it clears the token, the auth
\* object, the tier and the badge, disables the proof button again, and
\* makes no request.
C30_AuthGate ==
    [][ /\ page'.requests # page.requests =>
              /\ page'.op = "handleRequestProof"
              /\ page'.requests = page.requests + 1
              /\ page.jwtToken # ""
              /\ page.authToken.held
              /\ isTokenValid(page.authToken)
              /\ ~page.proofBtnDisabled
        /\ (RequestProofStep /\ page.jwtToken = "") =>
              /\ page'.requests = page.requests
              /\ page'.authToken = page.authToken
              /\ page'.proofBtnDisabled = page.proofBtnDisabled
        /\ (RequestProofStep /\ page.jwtToken # "" /\ page.authToken.expired) =>
              /\ page'.requests = page.requests
              /\ page'.jwtToken = ""
              /\ page'.authToken = NoAuth
              /\ page'.tier = ""
              /\ ~page'.showAuthBadge
              /\ page'.proofBtnDisabled
      ]_vars

\* A click on the proof button with an expired credit-tier token, after a
\* request was made while the token was valid: all auth state is cleared
\* and the count of requests stays at one.
C30_Witness ==
    /\ page.op = "handleRequestProof"
    /\ page.did = "alert: token expired"
    /\ page.requests = 1
    /\ page.jwtToken = ""
    /\ page.authToken = NoAuth
    /\ page.proofBtnDisabled

====
